---- MODULE Spec2Model ----
(***************************************************************************)
(* SceneEngine (src/src/engine.ts), the GameObject of the SceneEngine      *)
(* variant (src/src/gameObject.ts, second class of the file) and the       *)
(* InputManager (src/unnamed/part_003) as a state machine.                 *)
(*                                                                         *)
(* A JavaScript Set or Map iterates in insertion order, so every Set or    *)
(* Map whose order the code can observe is a sequence without duplicates.  *)
(* The object of the three library that a GameObject wraps is modelled by  *)
(* what the code reads of it: whether the reference is set, which three    *)
(* object is its parent in the scene graph, its visible flag and position. *)
(***************************************************************************)
EXTENDS Integers, Sequences, FiniteSets, TLC

\* ----------------------------------------------------------------- bounds
MaxObjects == 3
MaxCreate == 2
MaxTags == 2
MaxCallbacks == 2
MaxSlots == 3
MaxFrames == 3
MaxCoord == 2
MaxKeys == 1
MaxTextures == 2
MaxBaseTags == 5
MaxQuery == 2
MaxRuns == 2
MaxHandlers == 3

Ids == 1..MaxObjects
Tags == 1..MaxTags
Callbacks == 1..MaxCallbacks
Coords == 0..MaxCoord
KeyCodes == 1..MaxKeys
Textures == 1..MaxTextures
BaseTags == 1..MaxBaseTags

\* null (parent: GameObject | null, Object3D.parent of a detached object)
Null == 0
\* the engine's THREE.Scene as a parent in the scene graph
SceneRoot == -1
\* a deleted entry of a Set that a forEach is still walking
Empty == 0

VARIABLES
  mode,               \* SceneEngine.mode
  created,            \* number of GameObjects constructed; the k-th has id k
  objects,            \* SceneEngine.objects (Map id -> GameObject), its keys in order
  tagIndex,           \* SceneEngine.tagIndex: tag -> Set of ids, keys as set
  collidables,        \* SceneEngine.collidables
  tags,               \* GameObject._tags
  collider,           \* GameObject.collider (type "none" is null)
  children,           \* GameObject.children
  parent,             \* GameObject.parent
  enabled,            \* GameObject._enabled
  isDestroyed,        \* GameObject._isDestroyed
  threeObject,        \* GameObject.threeObject is not null
  threeParent,        \* Object3D.parent of the object's three object
  visible,            \* Object3D.visible of the object's three object
  position,           \* Object3D.position of the object's three object
  rotation,           \* Object3D.rotation of the object's three object
  scale,              \* Object3D.scale of the object's three object
  type,               \* GameObject.type ("none" before the object is made)
  materialMap,        \* material.map of the object's mesh (Null: no texture)
  loads,              \* TextureLoader.load calls whose callback is still due
  delivered,          \* what the last load callback of the object did (history only)
  cleanups,           \* runs of the Three.js cleanup of destroy() (history only)
  baseTags,           \* _tags of an object of the abstract GameObject class
  updateHandlers,     \* GameObject.updateHandlers (CanvasEngine variant)
  invoked,            \* runs of each update handler in the last update() (history only)
  updateCallbacks,    \* SceneEngine.updateCallbacks
  collisionCallbacks, \* SceneEngine.collisionCallbacks
  clickCallbacks,     \* SceneEngine.clickCallbacks
  keys,               \* InputManager.keys
  mouseDown,          \* InputManager.mouse.isDown
  justPressed,        \* InputManager.justPressed
  justReleased,       \* InputManager.justReleased
  frame,              \* SceneEngine.frame
  pc,                 \* where the single JavaScript thread is
  cur,                \* index of the running forEach over a callback Set
  sweep,              \* locals of updateCollisions: objects, i, j, checked
  obs                 \* what has been observed of the run (history only)

objVars == <<created, objects, tagIndex, collidables, tags, collider, children,
             parent, enabled, isDestroyed, threeObject, threeParent, visible,
             position, cleanups>>
cbVars == <<updateCallbacks, collisionCallbacks, clickCallbacks>>
inputVars == <<keys, mouseDown, justPressed, justReleased>>
loopVars == <<frame, pc, cur, sweep>>
lookVars == <<rotation, scale, type, materialMap, loads, delivered>>
canvasVars == <<baseTags, updateHandlers, invoked>>
vars == <<mode, objVars, lookVars, canvasVars, cbVars, inputVars, loopVars, obs>>

\* ------------------------------------------------- insertion-ordered Sets
SetHas(s, x) == \E i \in 1..Len(s) : s[i] = x

SetAdd(s, x) == IF SetHas(s, x) THEN s ELSE Append(s, x)

SetDelete(s, x) == SelectSeq(s, LAMBDA y : y # x)

Elems(s) == {s[i] : i \in 1..Len(s)}

NoDup(s) == \A i, j \in 1..Len(s) : s[i] = s[j] => i = j

\* ------------------------------------------------------ engine registries
\* the part of the state that GameObject.destroy, addChild and removeChild
\* read and write, as one value so that the recursion can pass it on
World ==
  [isDestroyed |-> isDestroyed, collidables |-> collidables,
   tagIndex |-> tagIndex, children |-> children, parent |-> parent,
   objects |-> objects, threeObject |-> threeObject,
   threeParent |-> threeParent, cleanups |-> cleanups]

SetWorld(w) ==
  /\ isDestroyed' = w.isDestroyed
  /\ collidables' = w.collidables
  /\ tagIndex' = w.tagIndex
  /\ children' = w.children
  /\ parent' = w.parent
  /\ objects' = w.objects
  /\ threeObject' = w.threeObject
  /\ threeParent' = w.threeParent
  /\ cleanups' = w.cleanups

updateTagIndexAdd(ti, id, tag) ==
  LET withKey == IF tag \in DOMAIN ti THEN ti
                 ELSE [t \in DOMAIN ti \cup {tag} |->
                         IF t = tag THEN <<>> ELSE ti[t]]
  IN [withKey EXCEPT ![tag] = SetAdd(@, id)]

\* a removal that never reaches the index
updateTagIndexRemoveSkipped(ti, id, tag) == ti

updateTagIndexRemove(ti, id, tag) ==
  IF tag \in DOMAIN ti THEN [ti EXCEPT ![tag] = SetDelete(@, id)] ELSE ti

updateTagIndex(ti, id, tag, action) ==
  IF action = "add" THEN updateTagIndexAdd(ti, id, tag)
  ELSE updateTagIndexRemove(ti, id, tag)

\* a registry that keeps the entry of a destroyed object
removeObjectKept(objs, id) == objs

removeObject(objs, id) == SetDelete(objs, id)

registerCollider(cs, o) == SetAdd(cs, o)

unregisterCollider(cs, o) == SetDelete(cs, o)

\* ------------------------------------------------------------- hierarchy
\* THREE.Object3D.add as called by addChild: an object is not added to
\* itself, otherwise it leaves its former parent and gets the new one
threeAdd(tp, p, c) == IF c = p THEN tp ELSE [tp EXCEPT ![c] = p]

\* THREE.Object3D.remove: only a child of the receiver is detached
threeRemove(tp, p, c) == IF tp[c] = p THEN [tp EXCEPT ![c] = Null] ELSE tp

removeChild(w, p, c) ==
  IF SetHas(w.children[p], c)
  THEN LET w1 == [w EXCEPT !.children[p] = SetDelete(@, c)]
           w2 == [w1 EXCEPT !.parent[c] = Null]
       IN IF w2.threeObject[p] /\ w2.threeObject[c]
          THEN [w2 EXCEPT !.threeParent = threeRemove(@, p, c)]
          ELSE w2
  ELSE w

\* an addChild that leaves the child with its previous parent as well
addChildKeptOld(w, p, c) ==
  LET w2 == [w EXCEPT !.children[p] = SetAdd(@, c)]
      w3 == [w2 EXCEPT !.parent[c] = p]
  IN IF w3.threeObject[p] /\ w3.threeObject[c]
     THEN [w3 EXCEPT !.threeParent = threeAdd(@, p, c)]
     ELSE w3

addChild(w, p, c) ==
  LET w1 == IF w.parent[c] # Null THEN removeChild(w, w.parent[c], c) ELSE w
      w2 == [w1 EXCEPT !.children[p] = SetAdd(@, c)]
      w3 == [w2 EXCEPT !.parent[c] = p]
  IN IF w3.threeObject[p] /\ w3.threeObject[c]
     THEN [w3 EXCEPT !.threeParent = threeAdd(@, p, c)]
     ELSE w3

\* ------------------------------------------------------------ destruction
RECURSIVE untagAll(_, _, _)
untagAll(ti, id, ts) ==
  IF ts = {} THEN ti
  ELSE LET t == CHOOSE x \in ts : TRUE
       IN untagAll(updateTagIndex(ti, id, t, "remove"), id, ts \ {t})

\* scene.remove(threeObject); threeObject = null
threeCleanup(w, o) ==
  IF w.threeObject[o]
  THEN [w EXCEPT !.threeParent = threeRemove(@, SceneRoot, o),
                 !.threeObject[o] = FALSE,
                 !.cleanups[o] = @ + 1]
  ELSE w

RECURSIVE destroy(_, _), destroyEach(_, _), destroyGuardedLate(_, _)
\* a destroy() that looks at _isDestroyed only after its unregistrations
destroyGuardedLate(w, o) ==
  LET w1 == [w EXCEPT !.collidables = unregisterCollider(@, o)]
      w2 == [w1 EXCEPT !.tagIndex = untagAll(@, o, tags[o])]
  IN IF w.isDestroyed[o] THEN w2
     ELSE LET w3 == [w2 EXCEPT !.isDestroyed[o] = TRUE]
              w4 == destroyEach(w3, w3.children[o])
              w5 == IF w4.parent[o] # Null
                    THEN removeChild(w4, w4.parent[o], o) ELSE w4
              w6 == [w5 EXCEPT !.objects = removeObject(@, o)]
          IN threeCleanup(w6, o)

destroy(w, o) ==
  IF w.isDestroyed[o] THEN w
  ELSE LET w1 == [w EXCEPT !.isDestroyed[o] = TRUE]
           w2 == [w1 EXCEPT !.collidables = unregisterCollider(@, o)]
           w3 == [w2 EXCEPT !.tagIndex = untagAll(@, o, tags[o])]
           w4 == destroyEach(w3, w3.children[o])
           w5 == IF w4.parent[o] # Null
                 THEN removeChild(w4, w4.parent[o], o) ELSE w4
           w6 == [w5 EXCEPT !.objects = removeObject(@, o)]
       IN threeCleanup(w6, o)

\* Array.from(this.children).forEach((c) => c.destroy())
destroyEach(w, cs) ==
  IF cs = <<>> THEN w ELSE destroyEach(destroy(w, Head(cs)), Tail(cs))

\* ------------------------------------------------------------- colliders
\* lengths are in units of 1/Scale, so that the default radius 0.5 is exact
Scale == 2
DefaultRadius == 1
\* a size that was left out, and a size that is an array; a size that is a
\* number is not negative
NoSize == -1
ArraySize == -2

\* typeof config.size === "number"
isNumber(size) == size >= 0

NoCollider == [type |-> "none", radius |-> 0, offset |-> <<0, 0, 0>>]

\* bounds of addCollider; only a circle or a sphere gets a radius
colliderBounds(m, cfg) ==
  IF m = "2d"
  THEN IF cfg.type = "circle" \/ cfg.type = "sphere"
       THEN IF isNumber(cfg.size) THEN cfg.size ELSE DefaultRadius
       ELSE 0
  ELSE IF cfg.type = "sphere"
       THEN IF isNumber(cfg.size) THEN cfg.size ELSE DefaultRadius
       ELSE 0

\* new THREE.Vector3(...(config.offset || [0, 0, 0]))
colliderOffset(cfg) ==
  IF "offset" \in DOMAIN cfg THEN cfg.offset ELSE <<0, 0, 0>>

makeCollider(m, cfg) ==
  [type |-> cfg.type, radius |-> colliderBounds(m, cfg),
   offset |-> colliderOffset(cfg)]

\* ------------------------------------------------------------ query API
getObjectById(id) == IF SetHas(objects, id) THEN id ELSE Null

getAllObjects == objects

\* sets.reduce((min, set) => (set.size < min.size ? set : min), sets[0])
RECURSIVE smallestOf(_, _, _)
smallestOf(sets, i, min) ==
  IF i > Len(sets) THEN min
  ELSE smallestOf(sets, i + 1, IF Len(sets[i]) < Len(min) THEN sets[i] ELSE min)

\* the single-tag lookup without the filter on the registry
getByTagsUnfiltered(ts) ==
  IF Len(ts) = 0 THEN <<>>
  ELSE IF Len(ts) = 1
  THEN IF ts[1] \notin DOMAIN tagIndex THEN <<>> ELSE tagIndex[ts[1]]
  ELSE LET sets == [i \in 1..Len(ts) |->
                      IF ts[i] \in DOMAIN tagIndex THEN tagIndex[ts[i]] ELSE <<>>]
           smallest == smallestOf(sets, 1, sets[1])
       IN SelectSeq(smallest,
            LAMBDA id : /\ \A i \in 1..Len(sets) : SetHas(sets[i], id)
                        /\ SetHas(objects, id))

getByTags(ts) ==
  IF Len(ts) = 0 THEN <<>>
  ELSE IF Len(ts) = 1
  THEN IF ts[1] \notin DOMAIN tagIndex THEN <<>>
       ELSE SelectSeq(tagIndex[ts[1]], LAMBDA id : SetHas(objects, id))
  ELSE LET sets == [i \in 1..Len(ts) |->
                      IF ts[i] \in DOMAIN tagIndex THEN tagIndex[ts[i]] ELSE <<>>]
           smallest == smallestOf(sets, 1, sets[1])
       IN SelectSeq(smallest,
            LAMBDA id : /\ \A i \in 1..Len(sets) : SetHas(sets[i], id)
                        /\ SetHas(objects, id))

\* undefined is Null
getByTag(ts) == IF Len(getByTags(ts)) = 0 THEN Null ELSE getByTags(ts)[1]

hasTag(o, t) == t \in tags[o]

\* ------------------------------------------------------------------ Init
\* new SceneEngine(options): the constructor ends with startLoop(), whose
\* first animate() call runs frame 1 over the empty registries
Pairs == {p \in Ids \X Ids : p[1] < p[2]}

\* the pairs of objects that are registered as colliders, enabled and not
\* destroyed
DuePairs ==
  {p \in Pairs : \A o \in {p[1], p[2]} :
                   SetHas(collidables, o) /\ enabled[o] /\ ~isDestroyed[o]}

NoSweep == [objects |-> <<>>, i |-> 0, j |-> 0, checked |-> {}]

\* step: the last step of animate that was completed; running: the callback
\* that is being invoked; calls: invocations of an update callback since the
\* frame began or since it was registered, whichever is later; subU, subC,
\* subK: the callbacks registered and not unsubscribed, by the calls made;
\* seen: update callbacks invoked so far; told, prevTold: the collision
\* callbacks invoked in this frame and in the one before, each with its pair;
\* sinceDown, sincePress: frames begun since the last mousedown and keydown;
\* due: the pairs of registered, enabled, live colliders when the sweep of
\* this frame began; tests: the calls of checkCollision on each pair in it
NoObs ==
  [step |-> "render", running |-> Null, calls |-> [c \in Callbacks |-> 0],
   subU |-> {}, subC |-> {}, subK |-> {}, seen |-> {},
   told |-> {}, prevTold |-> {},
   due |-> {}, tests |-> [p \in Pairs |-> 0],
   sinceDown |-> 2, sincePress |-> [k \in KeyCodes |-> 2]]

\* no object of the other two classes has been made
InitCanvasVars ==
  /\ baseTags = <<>>
  /\ updateHandlers = [o \in Ids |-> <<>>]
  /\ invoked = [o \in Ids |-> [h \in Callbacks |-> 0]]

InitObjects ==
  /\ created = 0
  /\ objects = <<>>
  /\ tagIndex = <<>>
  /\ collidables = <<>>
  /\ tags = [o \in Ids |-> {}]
  /\ collider = [o \in Ids |-> NoCollider]
  /\ children = [o \in Ids |-> <<>>]
  /\ parent = [o \in Ids |-> Null]
  /\ enabled = [o \in Ids |-> TRUE]
  /\ isDestroyed = [o \in Ids |-> FALSE]
  /\ threeObject = [o \in Ids |-> FALSE]
  /\ threeParent = [o \in Ids |-> Null]
  /\ visible = [o \in Ids |-> TRUE]
  /\ position = [o \in Ids |-> <<0, 0, 0>>]
  /\ rotation = [o \in Ids |-> <<0, 0, 0>>]
  /\ scale = [o \in Ids |-> <<1, 1, 1>>]
  /\ type = [o \in Ids |-> "none"]
  /\ materialMap = [o \in Ids |-> Null]
  /\ loads = {}
  /\ delivered = [o \in Ids |-> "none"]
  /\ cleanups = [o \in Ids |-> 0]
  /\ InitCanvasVars

InitEngine ==
  /\ updateCallbacks = <<>>
  /\ collisionCallbacks = <<>>
  /\ clickCallbacks = <<>>
  /\ keys = <<>>
  /\ mouseDown = FALSE
  /\ justPressed = FALSE
  /\ justReleased = FALSE
  /\ frame = 1
  /\ pc = "idle"
  /\ cur = 0
  /\ sweep = NoSweep
  /\ obs = NoObs

Init ==
  /\ mode \in {"2d", "3d"}
  /\ InitObjects
  /\ InitEngine

\* new SceneEngine() with the default options
InitDefault ==
  /\ mode = "3d"
  /\ InitObjects
  /\ InitEngine

\* ------------------------------------------------------- calls of user code
\* user code runs between two frames or inside a callback the engine invokes
UserTurn == pc \in {"idle", "updateCb", "collisionCb", "clickCb"}

Made == 1..created

\* config.tags.forEach((t) => obj.addTag(t)) on the new object
RECURSIVE tagAll(_, _, _)
tagAll(ti, id, ts) ==
  IF ts = {} THEN ti
  ELSE LET t == CHOOSE x \in ts : TRUE
       IN tagAll(updateTagIndex(ti, id, t, "add"), id, ts \ {t})

\* config.position[2] || 0
orZero(p, i) == IF Len(p) >= i /\ p[i] # 0 THEN p[i] ELSE 0

\* config.scale[2] || 1
orOne(p, i) == IF Len(p) >= i /\ p[i] # 0 THEN p[i] ELSE 1

\* a field of the config that the caller may leave out
Given(cfg, f) == f \in DOMAIN cfg

CreateObject(cfg, limit) ==
  /\ UserTurn
  /\ created < MaxObjects
  /\ created < limit
  /\ LET id == created + 1
         pos == IF Given(cfg, "position") /\ cfg.position # <<>>
                THEN <<cfg.position[1], cfg.position[2], orZero(cfg.position, 3)>>
                ELSE <<0, 0, 0>>
         rot == IF Given(cfg, "rotation") /\ cfg.rotation # <<>>
                THEN <<cfg.rotation[1], cfg.rotation[2], orZero(cfg.rotation, 3)>>
                ELSE <<0, 0, 0>>
         scl == IF Given(cfg, "scale") /\ cfg.scale # <<>>
                THEN <<cfg.scale[1], cfg.scale[2], orOne(cfg.scale, 3)>>
                ELSE <<1, 1, 1>>
     IN /\ created' = id
        /\ type' = [type EXCEPT ![id] = cfg.type]
        /\ threeObject' = [threeObject EXCEPT ![id] = TRUE]
        /\ threeParent' = [threeParent EXCEPT ![id] = SceneRoot]
        /\ position' = [position EXCEPT ![id] = pos]
        /\ rotation' = [rotation EXCEPT ![id] = rot]
        /\ scale' = [scale EXCEPT ![id] = scl]
        /\ tags' = [tags EXCEPT ![id] = cfg.tags]
        /\ tagIndex' = tagAll(tagIndex, id, cfg.tags)
        /\ objects' = SetAdd(objects, id)
  /\ UNCHANGED <<mode, canvasVars, cleanups, materialMap, loads, delivered, collidables, collider,
                 children, parent, enabled, isDestroyed, visible, cbVars,
                 inputVars, loopVars, obs>>

AddTag(o, t) ==
  /\ UserTurn
  /\ o \in Made
  /\ IF ~hasTag(o, t)
     THEN /\ tags' = [tags EXCEPT ![o] = @ \cup {t}]
          /\ tagIndex' = updateTagIndex(tagIndex, o, t, "add")
     ELSE UNCHANGED <<tags, tagIndex>>
  /\ UNCHANGED <<mode, canvasVars, lookVars, cleanups, created, objects, collidables, collider, children,
                 parent, enabled, isDestroyed, threeObject, threeParent,
                 visible, position, cbVars, inputVars, loopVars, obs>>

RemoveTag(o, t) ==
  /\ UserTurn
  /\ o \in Made
  /\ IF hasTag(o, t)
     THEN /\ tags' = [tags EXCEPT ![o] = @ \ {t}]
          /\ tagIndex' = updateTagIndex(tagIndex, o, t, "remove")
     ELSE UNCHANGED <<tags, tagIndex>>
  /\ UNCHANGED <<mode, canvasVars, lookVars, cleanups, created, objects, collidables, collider, children,
                 parent, enabled, isDestroyed, threeObject, threeParent,
                 visible, position, cbVars, inputVars, loopVars, obs>>

AddCollider(o, cfg) ==
  /\ UserTurn
  /\ o \in Made
  /\ collider' = [collider EXCEPT ![o] = makeCollider(mode, cfg)]
  /\ collidables' = registerCollider(collidables, o)
  /\ UNCHANGED <<mode, canvasVars, lookVars, cleanups, created, objects, tagIndex, tags, children, parent,
                 enabled, isDestroyed, threeObject, threeParent, visible,
                 position, cbVars, inputVars, loopVars, obs>>

RemoveCollider(o) ==
  /\ UserTurn
  /\ o \in Made
  /\ IF collider[o] # NoCollider
     THEN /\ collidables' = unregisterCollider(collidables, o)
          /\ collider' = [collider EXCEPT ![o] = NoCollider]
     ELSE UNCHANGED <<collidables, collider>>
  /\ UNCHANGED <<mode, canvasVars, lookVars, cleanups, created, objects, tagIndex, tags, children, parent,
                 enabled, isDestroyed, threeObject, threeParent, visible,
                 position, cbVars, inputVars, loopVars, obs>>

AddChild(p, c) ==
  /\ UserTurn
  /\ p \in Made /\ c \in Made
  /\ SetWorld(addChild(World, p, c))
  /\ UNCHANGED <<mode, canvasVars, lookVars, created, tags, collider, enabled, visible, position,
                 cbVars, inputVars, loopVars, obs>>

RemoveChild(p, c) ==
  /\ UserTurn
  /\ p \in Made /\ c \in Made
  /\ SetWorld(removeChild(World, p, c))
  /\ UNCHANGED <<mode, canvasVars, lookVars, created, tags, collider, enabled, visible, position,
                 cbVars, inputVars, loopVars, obs>>

Destroy(o) ==
  /\ UserTurn
  /\ o \in Made
  /\ SetWorld(destroy(World, o))
  /\ UNCHANGED <<mode, canvasVars, lookVars, created, tags, collider, enabled, visible, position,
                 cbVars, inputVars, loopVars, obs>>

\* ------------------------------------------------------------- textures
\* threeObject instanceof THREE.Mesh: a sprite or a mesh that is not destroyed
isMesh(o) == threeObject[o] /\ type[o] \in {"sprite", "mesh"}

\* material instanceof THREE.MeshBasicMaterial: only a sprite has one
isBasic(o) == type[o] = "sprite"

\* a load callback that applies the texture without looking at the object
loadApplyUnguarded(mm, o, t) == [mm EXCEPT ![o] = t]

\* the onLoad callback of setImage
loadApply(mm, o, t) ==
  IF threeObject[o] /\ ~isDestroyed[o] /\ isMesh(o) /\ isBasic(o)
  THEN [mm EXCEPT ![o] = t]
  ELSE mm

\* setImage(url) with a string: the old texture goes and a load starts
SetImage(o, t) ==
  /\ UserTurn
  /\ o \in Made
  /\ IF isMesh(o) /\ isBasic(o)
     THEN /\ materialMap' = [materialMap EXCEPT ![o] = Null]
          /\ loads' = loads \cup {<<o, t>>}
     ELSE UNCHANGED <<materialMap, loads>>
  /\ UNCHANGED <<mode, canvasVars, objVars, rotation, scale, type, delivered, cbVars,
                 inputVars, loopVars, obs>>

\* setImage(texture) with a THREE.Texture that is already loaded
SetTexture(o, t) ==
  /\ UserTurn
  /\ o \in Made
  /\ IF isMesh(o) /\ isBasic(o)
     THEN materialMap' = [materialMap EXCEPT ![o] = t]
     ELSE UNCHANGED materialMap
  /\ UNCHANGED <<mode, canvasVars, objVars, rotation, scale, type, loads, delivered,
                 cbVars, inputVars, loopVars, obs>>

\* the loader calls onLoad, between two frames
LoadDone(o, t) ==
  /\ pc = "idle"
  /\ <<o, t>> \in loads
  /\ loads' = loads \ {<<o, t>>}
  /\ materialMap' = loadApply(materialMap, o, t)
  /\ delivered' = [delivered EXCEPT
                     ![o] = IF isDestroyed[o] THEN "late" ELSE "live"]
  /\ UNCHANGED <<mode, canvasVars, objVars, rotation, scale, type, cbVars, inputVars,
                 loopVars, obs>>

\* the loader calls onError, which only logs
LoadError(o, t) ==
  /\ pc = "idle"
  /\ <<o, t>> \in loads
  /\ loads' = loads \ {<<o, t>>}
  /\ UNCHANGED <<mode, canvasVars, objVars, rotation, scale, type, materialMap, delivered,
                 cbVars, inputVars, loopVars, obs>>

\* an enable() or disable() that leaves the three object as it is
showKept(vis, o, v) == vis

\* if (this.threeObject) this.threeObject.visible = v
show(vis, o, v) == IF threeObject[o] THEN [vis EXCEPT ![o] = v] ELSE vis

Enable(o) ==
  /\ UserTurn
  /\ o \in Made
  /\ enabled' = [enabled EXCEPT ![o] = TRUE]
  /\ visible' = show(visible, o, TRUE)
  /\ UNCHANGED <<mode, canvasVars, lookVars, cleanups, created, objects,
                 tagIndex, collidables, tags, collider, children, parent,
                 isDestroyed, threeObject, threeParent, position, cbVars,
                 inputVars, loopVars, obs>>

Disable(o) ==
  /\ UserTurn
  /\ o \in Made
  /\ enabled' = [enabled EXCEPT ![o] = FALSE]
  /\ visible' = show(visible, o, FALSE)
  /\ UNCHANGED <<mode, canvasVars, lookVars, cleanups, created, objects,
                 tagIndex, collidables, tags, collider, children, parent,
                 isDestroyed, threeObject, threeParent, position, cbVars,
                 inputVars, loopVars, obs>>

\* SceneEngine.destroy(): every registered object is destroyed, in the
\* order of the registry (the renderer is not part of the model)
EngineDestroy ==
  /\ UserTurn
  /\ SetWorld(destroyEach(World, objects))
  /\ UNCHANGED <<mode, canvasVars, lookVars, created, tags, collider, enabled, visible,
                 position, cbVars, inputVars, loopVars, obs>>

\* ------------------------------------------- the abstract GameObject
RECURSIVE addEach(_, _)
\* tags.forEach((t) => this._tags.add(t))
addEach(set, list) ==
  IF list = <<>> THEN set ELSE addEach(SetAdd(set, Head(list)), Tail(list))

RECURSIVE deleteEach(_, _)
\* tags.forEach((t) => this._tags.delete(t))
deleteEach(set, list) ==
  IF list = <<>> THEN set ELSE deleteEach(SetDelete(set, Head(list)), Tail(list))

RECURSIVE every(_, _)
\* Array.prototype.every with (t) => set.has(t)
every(list, set) ==
  IF list = <<>> THEN TRUE
  ELSE IF SetHas(set, Head(list)) THEN every(Tail(list), set) ELSE FALSE

RECURSIVE some(_, _)
\* Array.prototype.some with (t) => set.has(t)
some(list, set) ==
  IF list = <<>> THEN FALSE
  ELSE IF SetHas(set, Head(list)) THEN TRUE ELSE some(Tail(list), set)

\* a hasTags that does not look at matchAll
hasTagsAlwaysAll(list, matchAll) == every(list, baseTags)

hasTags(list, matchAll) ==
  IF matchAll THEN every(list, baseTags) ELSE some(list, baseTags)

\* hasAllTags of the SceneEngine variant, over the tags of object o
hasAllTags(o, list) == \A i \in 1..Len(list) : hasTag(o, list[i])

AddTags(list) ==
  /\ UserTurn
  /\ baseTags' = addEach(baseTags, list)
  /\ UNCHANGED <<mode, objVars, lookVars, updateHandlers, invoked, cbVars,
                 inputVars, loopVars, obs>>

RemoveTags(list) ==
  /\ UserTurn
  /\ baseTags' = deleteEach(baseTags, list)
  /\ UNCHANGED <<mode, objVars, lookVars, updateHandlers, invoked, cbVars,
                 inputVars, loopVars, obs>>

\* ------------------------------------------------------ callback Sets
\* Set.prototype.forEach walks the entries by index and reads the length
\* again after every call: an entry deleted during the walk leaves a hole,
\* an entry added during the walk is appended and visited
cbAdd(set, cb) == IF SetHas(set, cb) THEN set ELSE Append(set, cb)

\* an unsubscribe that deletes nothing
cbDeleteNothing(set, cb, walking) == set

cbDelete(set, cb, walking) ==
  IF walking
  THEN [i \in 1..Len(set) |-> IF set[i] = cb THEN Empty ELSE set[i]]
  ELSE SetDelete(set, cb)

\* the holes go once the walk is over
cbCompact(set) == SetDelete(set, Empty)

WalkingUpdate == pc \in {"update", "updateCb"}
WalkingCollision == pc \in {"collision", "collisionCb"}
WalkingClick == pc \in {"click", "clickCb"}

OnUpdate(cb) ==
  /\ UserTurn
  /\ Len(updateCallbacks) < MaxSlots
  /\ updateCallbacks' = cbAdd(updateCallbacks, cb)
  /\ obs' = [obs EXCEPT !.subU = @ \cup {cb},
                        !.calls[cb] = IF cb \in obs.subU THEN @ ELSE 0]
  /\ UNCHANGED <<mode, canvasVars, lookVars, objVars, collisionCallbacks, clickCallbacks, inputVars,
                 loopVars>>

\* the function returned by onUpdate(cb)
OffUpdate(cb) ==
  /\ UserTurn
  /\ updateCallbacks' = cbDelete(updateCallbacks, cb, WalkingUpdate)
  /\ obs' = [obs EXCEPT !.subU = @ \ {cb}]
  /\ UNCHANGED <<mode, canvasVars, lookVars, objVars, collisionCallbacks, clickCallbacks, inputVars,
                 loopVars>>

OnCollisionEnter(cb) ==
  /\ UserTurn
  /\ Len(collisionCallbacks) < MaxSlots
  /\ collisionCallbacks' = cbAdd(collisionCallbacks, cb)
  /\ obs' = [obs EXCEPT !.subC = @ \cup {cb}]
  /\ UNCHANGED <<mode, canvasVars, lookVars, objVars, updateCallbacks, clickCallbacks, inputVars,
                 loopVars>>

\* the function returned by onCollisionEnter(cb)
OffCollisionEnter(cb) ==
  /\ UserTurn
  /\ collisionCallbacks' = cbDelete(collisionCallbacks, cb, WalkingCollision)
  /\ obs' = [obs EXCEPT !.subC = @ \ {cb}]
  /\ UNCHANGED <<mode, canvasVars, lookVars, objVars, updateCallbacks, clickCallbacks, inputVars,
                 loopVars>>

OnClick(cb) ==
  /\ UserTurn
  /\ Len(clickCallbacks) < MaxSlots
  /\ clickCallbacks' = cbAdd(clickCallbacks, cb)
  /\ obs' = [obs EXCEPT !.subK = @ \cup {cb}]
  /\ UNCHANGED <<mode, canvasVars, lookVars, objVars, updateCallbacks, collisionCallbacks, inputVars,
                 loopVars>>

\* the function returned by onClick(cb)
OffClick(cb) ==
  /\ UserTurn
  /\ clickCallbacks' = cbDelete(clickCallbacks, cb, WalkingClick)
  /\ obs' = [obs EXCEPT !.subK = @ \ {cb}]
  /\ UNCHANGED <<mode, canvasVars, lookVars, objVars, updateCallbacks, collisionCallbacks, inputVars,
                 loopVars>>

\* ---------------------------------------------------------- InputManager
isKeyDown(code) == IF code \in DOMAIN keys THEN keys[code] ELSE FALSE

isKeyPressed(code) == code \in DOMAIN keys /\ keys[code] = TRUE

isMouseDown == mouseDown

isMouseJustPressed == justPressed

keysSet(ks, code, v) ==
  [c \in DOMAIN ks \cup {code} |-> IF c = code THEN v ELSE ks[c]]

\* DOM events are delivered between two frames, never inside one
KeyDown(code) ==
  /\ pc = "idle"
  /\ keys' = keysSet(keys, code, TRUE)
  /\ obs' = [obs EXCEPT !.sincePress[code] = 0]
  /\ UNCHANGED <<mode, canvasVars, lookVars, objVars, cbVars, mouseDown, justPressed, justReleased,
                 loopVars>>

KeyUp(code) ==
  /\ pc = "idle"
  /\ keys' = keysSet(keys, code, FALSE)
  /\ UNCHANGED <<mode, canvasVars, lookVars, objVars, cbVars, mouseDown, justPressed, justReleased,
                 loopVars, obs>>

MouseDownEvent ==
  /\ pc = "idle"
  /\ mouseDown' = TRUE
  /\ justPressed' = TRUE
  /\ obs' = [obs EXCEPT !.sinceDown = 0]
  /\ UNCHANGED <<mode, canvasVars, lookVars, objVars, cbVars, keys, justReleased, loopVars>>

MouseUpEvent ==
  /\ pc = "idle"
  /\ mouseDown' = FALSE
  /\ justReleased' = TRUE
  /\ UNCHANGED <<mode, canvasVars, lookVars, objVars, cbVars, keys, justPressed, loopVars, obs>>

\* ------------------------------------------------------- collision sweep
\* a.getPosition()!.clone(): getPosition() is null once threeObject is null,
\* and the call on null raises a TypeError
checkCollisionThrows(a, b) ==
  /\ collider[a] # NoCollider /\ collider[b] # NoCollider
  /\ ~threeObject[a] \/ ~threeObject[b]

Plus(p, q) == <<p[1] + q[1], p[2] + q[2], p[3] + q[3]>>

\* a check that takes a sphere in a 2d engine for a circle
checkCollisionSphereAsCircle(a, b) ==
  IF collider[a] = NoCollider \/ collider[b] = NoCollider THEN FALSE
  ELSE LET posA == Plus(position[a], collider[a].offset)
           posB == Plus(position[b], collider[b].offset)
           dx == posA[1] - posB[1]
           dy == posA[2] - posB[2]
           dz == posA[3] - posB[3]
           r == collider[a].radius + collider[b].radius
       IN IF mode = "2d"
          THEN IF /\ collider[a].type \in {"circle", "sphere"}
                  /\ collider[b].type \in {"circle", "sphere"}
               THEN dx * dx + dy * dy < r * r
               ELSE FALSE
          ELSE IF collider[a].type = "sphere" /\ collider[b].type = "sphere"
               THEN r > 0 /\ dx * dx + dy * dy + dz * dz < r * r
               ELSE FALSE

\* a check for which circles that exactly touch collide
checkCollisionTouching(a, b) ==
  IF collider[a] = NoCollider \/ collider[b] = NoCollider THEN FALSE
  ELSE LET posA == Plus(position[a], collider[a].offset)
           posB == Plus(position[b], collider[b].offset)
           dx == posA[1] - posB[1]
           dy == posA[2] - posB[2]
           dz == posA[3] - posB[3]
           r == collider[a].radius + collider[b].radius
       IN IF mode = "2d"
          THEN IF collider[a].type = "circle" /\ collider[b].type = "circle"
               THEN dx * dx + dy * dy <= r * r
               ELSE FALSE
          ELSE IF collider[a].type = "sphere" /\ collider[b].type = "sphere"
               THEN r > 0 /\ dx * dx + dy * dy + dz * dz < r * r
               ELSE FALSE

\* checkCollision(a, b) of two objects that have their three objects; the
\* distance of the 3d case is compared by its square
checkCollision(a, b) ==
  IF collider[a] = NoCollider \/ collider[b] = NoCollider THEN FALSE
  ELSE LET posA == Plus(position[a], collider[a].offset)
           posB == Plus(position[b], collider[b].offset)
           dx == posA[1] - posB[1]
           dy == posA[2] - posB[2]
           dz == posA[3] - posB[3]
           r == collider[a].radius + collider[b].radius
       IN IF mode = "2d"
          THEN IF collider[a].type = "circle" /\ collider[b].type = "circle"
               THEN dx * dx + dy * dy < r * r
               ELSE FALSE
          ELSE IF collider[a].type = "sphere" /\ collider[b].type = "sphere"
               THEN r > 0 /\ dx * dx + dy * dy + dz * dz < r * r
               ELSE FALSE

\* Array.from(this.collidables).filter(o => o.collider && o.enabled && !o.isDestroyed)
sweepObjects ==
  SelectSeq(collidables,
    LAMBDA o : collider[o] # NoCollider /\ enabled[o] /\ ~isDestroyed[o])

\* a.id < b.id ? `${a.id}_${b.id}` : `${b.id}_${a.id}`
pairId(a, b) == IF a < b THEN <<a, b>> ELSE <<b, a>>

\* the next (i, j) of the two nested for loops
nextPair(sw) ==
  IF sw.j < Len(sw.objects) THEN [sw EXCEPT !.j = @ + 1]
  ELSE [sw EXCEPT !.i = @ + 1, !.j = sw.i + 2]

SweepOver == sweep.j > Len(sweep.objects)

\* the pair (a, b) that the sweep is at
sweepPair == pairId(sweep.objects[sweep.i], sweep.objects[sweep.j])

\* ------------------------------------------------------------- animate
\* isRunning is never set to false, so every frame runs
TickStart ==
  /\ pc = "idle"
  /\ frame < MaxFrames
  /\ frame' = frame + 1
  /\ pc' = "update"
  /\ cur' = 1
  /\ obs' = [obs EXCEPT !.step = "start",
                        !.calls = [c \in Callbacks |-> 0],
                        !.prevTold = obs.told,
                        !.told = {},
                        !.due = {},
                        !.tests = [p \in Pairs |-> 0],
                        !.sinceDown = IF @ < 2 THEN @ + 1 ELSE @,
                        !.sincePress = [k \in KeyCodes |->
                                          IF @[k] < 2 THEN @[k] + 1 ELSE @[k]]]
  /\ UNCHANGED <<mode, canvasVars, lookVars, objVars, cbVars, inputVars, sweep>>

\* updateCallbacks.forEach((cb) => cb(data)), one entry
UpdateNext ==
  /\ pc = "update"
  /\ cur <= Len(updateCallbacks)
  /\ cur' = cur + 1
  /\ IF updateCallbacks[cur] # Empty
     THEN /\ pc' = "updateCb"
          /\ obs' = [obs EXCEPT !.running = updateCallbacks[cur],
                                !.calls[updateCallbacks[cur]] = @ + 1,
                                !.seen = @ \cup {updateCallbacks[cur]}]
     ELSE UNCHANGED <<pc, obs>>
  /\ UNCHANGED <<mode, canvasVars, lookVars, objVars, cbVars, inputVars, frame, sweep>>

UpdateReturn ==
  /\ pc = "updateCb"
  /\ pc' = "update"
  /\ obs' = [obs EXCEPT !.running = Null]
  /\ UNCHANGED <<mode, canvasVars, lookVars, objVars, cbVars, inputVars, frame, cur, sweep>>

\* the forEach is over and updateCollisions() takes its snapshot
UpdateDone ==
  /\ pc = "update"
  /\ cur > Len(updateCallbacks)
  /\ updateCallbacks' = cbCompact(updateCallbacks)
  /\ sweep' = [objects |-> sweepObjects, i |-> 1, j |-> 2, checked |-> {}]
  /\ pc' = "sweep"
  /\ cur' = 0
  /\ obs' = [obs EXCEPT !.step = "update", !.due = DuePairs]
  /\ UNCHANGED <<mode, canvasVars, lookVars, objVars, collisionCallbacks, clickCallbacks, inputVars,
                 frame>>

\* one pair of the sweep: a TypeError leaves animate, a collision starts
\* collisionCallbacks.forEach, anything else goes on to the next pair
SweepPair ==
  /\ pc = "sweep"
  /\ ~SweepOver
  /\ LET a == sweep.objects[sweep.i]
         b == sweep.objects[sweep.j]
         id == pairId(a, b)
         marked == [sweep EXCEPT !.checked = @ \cup {id}]
         tested == [obs EXCEPT !.tests[id] = @ + 1]
     IN IF id \in sweep.checked
        THEN /\ sweep' = nextPair(sweep)
             /\ UNCHANGED <<pc, cur, obs>>
        ELSE IF checkCollisionThrows(a, b)
        THEN /\ sweep' = NoSweep
             /\ pc' = "idle"
             /\ obs' = tested
             /\ UNCHANGED cur
        ELSE IF checkCollision(a, b)
        THEN /\ sweep' = marked
             /\ pc' = "collision"
             /\ cur' = 1
             /\ obs' = tested
        ELSE /\ sweep' = nextPair(marked)
             /\ obs' = tested
             /\ UNCHANGED <<pc, cur>>
  /\ UNCHANGED <<mode, canvasVars, lookVars, objVars, cbVars, inputVars, frame>>

\* collisionCallbacks.forEach((cb) => cb({ a, b, type: "enter" })), one entry
CollisionNext ==
  /\ pc = "collision"
  /\ cur <= Len(collisionCallbacks)
  /\ cur' = cur + 1
  /\ IF collisionCallbacks[cur] # Empty
     THEN /\ pc' = "collisionCb"
          /\ obs' = [obs EXCEPT !.running = collisionCallbacks[cur],
                                !.told = @ \cup {<<collisionCallbacks[cur],
                                                   sweepPair>>}]
     ELSE UNCHANGED <<pc, obs>>
  /\ UNCHANGED <<mode, canvasVars, lookVars, objVars, cbVars, inputVars, frame, sweep>>

CollisionReturn ==
  /\ pc = "collisionCb"
  /\ pc' = "collision"
  /\ obs' = [obs EXCEPT !.running = Null]
  /\ UNCHANGED <<mode, canvasVars, lookVars, objVars, cbVars, inputVars, frame, cur, sweep>>

CollisionDone ==
  /\ pc = "collision"
  /\ cur > Len(collisionCallbacks)
  /\ collisionCallbacks' = cbCompact(collisionCallbacks)
  /\ sweep' = nextPair(sweep)
  /\ pc' = "sweep"
  /\ cur' = 0
  /\ UNCHANGED <<mode, canvasVars, lookVars, objVars, updateCallbacks, clickCallbacks, inputVars,
                 frame, obs>>

SweepDone ==
  /\ pc = "sweep"
  /\ SweepOver
  /\ sweep' = NoSweep
  /\ pc' = "reset"
  /\ obs' = [obs EXCEPT !.step = "sweep"]
  /\ UNCHANGED <<mode, canvasVars, lookVars, objVars, cbVars, inputVars, frame, cur>>

\* this.input.resetFrame()
ResetFrame ==
  /\ pc = "reset"
  /\ justPressed' = FALSE
  /\ justReleased' = FALSE
  /\ pc' = "render"
  /\ obs' = [obs EXCEPT !.step = "reset"]
  /\ UNCHANGED <<mode, canvasVars, lookVars, objVars, cbVars, keys, mouseDown, frame, cur, sweep>>

\* this.renderer.render(this.scene, this.camera)
Render ==
  /\ pc = "render"
  /\ pc' = "idle"
  /\ obs' = [obs EXCEPT !.step = "render"]
  /\ UNCHANGED <<mode, canvasVars, lookVars, objVars, cbVars, inputVars, frame, cur, sweep>>

\* ------------------------------------------------------------ click event
RECURSIVE InScene(_, _)
\* the three object of o hangs under the scene root (n bounds the walk)
InScene(o, n) ==
  /\ threeObject[o]
  /\ \/ threeParent[o] = SceneRoot
     \/ /\ n > 0
        /\ threeParent[o] \in Ids
        /\ InScene(threeParent[o], n - 1)

\* for (const [id, gameObj] of this.objects): the first registered object
\* whose three object is the hit one or has it among its children
clickTargets(h) ==
  SelectSeq(objects,
    LAMBDA id : threeObject[id] /\ (id = h \/ threeParent[h] = id))

\* the raycast hits the three object of h first
ClickEvent(h) ==
  /\ pc = "idle"
  /\ h \in Made
  /\ InScene(h, MaxObjects)
  /\ IF clickTargets(h) # <<>>
     THEN /\ pc' = "click"
          /\ cur' = 1
     ELSE UNCHANGED <<pc, cur>>
  /\ UNCHANGED <<mode, canvasVars, lookVars, objVars, cbVars, inputVars, frame, sweep, obs>>

ClickNext ==
  /\ pc = "click"
  /\ cur <= Len(clickCallbacks)
  /\ cur' = cur + 1
  /\ IF clickCallbacks[cur] # Empty
     THEN /\ pc' = "clickCb"
          /\ obs' = [obs EXCEPT !.running = clickCallbacks[cur]]
     ELSE UNCHANGED <<pc, obs>>
  /\ UNCHANGED <<mode, canvasVars, lookVars, objVars, cbVars, inputVars, frame, sweep>>

ClickReturn ==
  /\ pc = "clickCb"
  /\ pc' = "click"
  /\ obs' = [obs EXCEPT !.running = Null]
  /\ UNCHANGED <<mode, canvasVars, lookVars, objVars, cbVars, inputVars, frame, cur, sweep>>

ClickDone ==
  /\ pc = "click"
  /\ cur > Len(clickCallbacks)
  /\ clickCallbacks' = cbCompact(clickCallbacks)
  /\ pc' = "idle"
  /\ cur' = 0
  /\ UNCHANGED <<mode, canvasVars, lookVars, objVars, updateCallbacks, collisionCallbacks, inputVars,
                 frame, sweep, obs>>

Tick ==
  \/ TickStart
  \/ UpdateNext
  \/ UpdateReturn
  \/ UpdateDone
  \/ SweepPair
  \/ CollisionNext
  \/ CollisionReturn
  \/ CollisionDone
  \/ SweepDone
  \/ ResetFrame
  \/ Render

\* ------------------------------------------------------- a scene at play
\* n objects made by createObject({type, position: [x, 0]}) and given a
\* circle collider by addCollider({type: "circle"}) in a 2d engine
InitScene(n) ==
  /\ mode = "2d"
  /\ created = n
  /\ objects = [i \in 1..n |-> i]
  /\ tagIndex = <<>>
  /\ collidables = [i \in 1..n |-> i]
  /\ tags = [o \in Ids |-> {}]
  /\ collider = [o \in Ids |->
                   IF o <= n
                   THEN makeCollider("2d", [type |-> "circle", size |-> NoSize])
                   ELSE NoCollider]
  /\ children = [o \in Ids |-> <<>>]
  /\ parent = [o \in Ids |-> Null]
  /\ enabled = [o \in Ids |-> TRUE]
  /\ isDestroyed = [o \in Ids |-> FALSE]
  /\ threeObject = [o \in Ids |-> o <= n]
  /\ threeParent = [o \in Ids |-> IF o <= n THEN SceneRoot ELSE Null]
  /\ visible = [o \in Ids |-> TRUE]
  /\ rotation = [o \in Ids |-> <<0, 0, 0>>]
  /\ scale = [o \in Ids |-> <<1, 1, 1>>]
  /\ type = [o \in Ids |-> IF o <= n THEN "sprite" ELSE "none"]
  /\ materialMap = [o \in Ids |-> Null]
  /\ loads = {}
  /\ delivered = [o \in Ids |-> "none"]
  /\ cleanups = [o \in Ids |-> 0]
  /\ InitCanvasVars
  /\ \E xs \in [1..n -> {0, MaxCoord}] :
       position = [o \in Ids |-> IF o <= n THEN <<xs[o], 0, 0>> ELSE <<0, 0, 0>>]

\* an empty scene or a scene of three colliders, with one system registered
\* by onUpdate and one by onCollisionEnter; the callbacks may destroy
\* objects, the user presses and releases a key and the mouse button
\* between the frames
InitLoop ==
  /\ \E n \in {0, 3} : InitScene(n)
  /\ updateCallbacks = <<1>>
  /\ collisionCallbacks = <<1>>
  /\ clickCallbacks = <<>>
  /\ keys = <<>>
  /\ mouseDown = FALSE
  /\ justPressed = FALSE
  /\ justReleased = FALSE
  /\ frame = 1
  /\ pc = "idle"
  /\ cur = 0
  /\ sweep = NoSweep
  /\ obs = [NoObs EXCEPT !.subU = {1}, !.subC = {1}]

NextLoop ==
  \/ Tick
  \/ \E o \in Ids : Destroy(o)
  \/ \E k \in KeyCodes : KeyDown(k)
  \/ \E k \in KeyCodes : KeyUp(k)
  \/ MouseDownEvent
  \/ MouseUpEvent

SpecLoop == InitLoop /\ [][NextLoop]_vars

\* a scene of two colliders in which systems are registered and unsubscribed
\* at any point where user code runs, and the user clicks on the objects
InitCallbacks ==
  /\ InitScene(2)
  /\ InitEngine

NextCallbacks ==
  \/ Tick
  \/ \E cb \in Callbacks : OnUpdate(cb)
  \/ \E cb \in Callbacks : OffUpdate(cb)
  \/ \E cb \in Callbacks : OnCollisionEnter(cb)
  \/ \E cb \in Callbacks : OffCollisionEnter(cb)
  \/ \E cb \in Callbacks : OnClick(cb)
  \/ \E cb \in Callbacks : OffClick(cb)
  \/ \E h \in Ids : ClickEvent(h)
  \/ ClickNext
  \/ ClickReturn
  \/ ClickDone

SpecCallbacks == InitCallbacks /\ [][NextCallbacks]_vars

\* ----------------------------------------------- registry and hierarchy
TagConfigs == [type : {"sprite"}, tags : SUBSET Tags]

NextRegistry ==
  \/ \E cfg \in TagConfigs : CreateObject(cfg, MaxCreate)
  \/ \E o \in Ids, t \in Tags : AddTag(o, t)
  \/ \E o \in Ids, t \in Tags : RemoveTag(o, t)
  \/ \E p \in Ids, c \in Ids : AddChild(p, c)
  \/ \E p \in Ids, c \in Ids : RemoveChild(p, c)
  \/ \E o \in Ids : Destroy(o)

SpecRegistry == InitDefault /\ [][NextRegistry]_vars

\* createObject, addTag, removeTag and destroy alone
NextTags ==
  \/ \E cfg \in TagConfigs : CreateObject(cfg, MaxCreate)
  \/ \E o \in Ids, t \in Tags : AddTag(o, t)
  \/ \E o \in Ids, t \in Tags : RemoveTag(o, t)
  \/ \E o \in Ids : Destroy(o)

SpecTags == InitDefault /\ [][NextTags]_vars

\* sprites and meshes whose images are set, load and fail while the objects
\* are destroyed
ImageConfigs == [type : {"sprite", "mesh"}, tags : {{}}]

NextImages ==
  \/ \E cfg \in ImageConfigs : CreateObject(cfg, MaxCreate)
  \/ \E o \in Ids, t \in Textures : SetImage(o, t)
  \/ \E o \in Ids, t \in Textures : SetTexture(o, t)
  \/ \E o \in Ids, t \in Textures : LoadDone(o, t)
  \/ \E o \in Ids, t \in Textures : LoadError(o, t)
  \/ \E o \in Ids : Destroy(o)

SpecImages == InitDefault /\ [][NextImages]_vars

\* createObject with every shape of config: position, rotation and scale
\* left out, given with two components or given with three
Vectors == {<<>>} \cup [1..2 -> {0, MaxCoord}] \cup [1..3 -> {0, MaxCoord}]

CreateConfigs ==
  [type : {"sprite"}, tags : SUBSET Tags, position : Vectors,
   rotation : Vectors, scale : Vectors]

NextCreate == \E cfg \in CreateConfigs : CreateObject(cfg, 1)

SpecCreate == InitDefault /\ [][NextCreate]_vars

\* objects with colliders in a hierarchy, and the end of the engine
ColliderConfigs == [type : {"sphere", "box"}, size : {NoSize}]

PlainConfigs == [type : {"sprite"}, tags : {{}}]

NextTeardown ==
  \/ \E cfg \in PlainConfigs : CreateObject(cfg, MaxCreate)
  \/ \E o \in Ids, cfg \in ColliderConfigs : AddCollider(o, cfg)
  \/ \E o \in Ids : RemoveCollider(o)
  \/ \E p \in Ids, c \in Ids : AddChild(p, c)
  \/ \E p \in Ids, c \in Ids : RemoveChild(p, c)
  \/ \E o \in Ids : Destroy(o)
  \/ EngineDestroy

SpecTeardown == InitDefault /\ [][NextTeardown]_vars

\* one object of the abstract class whose tags are added and removed in lists
BaseLists == UNION {[1..n -> BaseTags] : n \in 0..MaxQuery}

NextBaseTags ==
  \/ \E list \in BaseLists : AddTags(list)
  \/ \E list \in BaseLists : RemoveTags(list)

SpecBaseTags == InitDefault /\ [][NextBaseTags]_vars

\* up to MaxObjects plain objects put under each other, taken out again and
\* destroyed
NextHierarchy ==
  \/ \E cfg \in PlainConfigs : CreateObject(cfg, MaxObjects)
  \/ \E p \in Ids, c \in Ids : AddChild(p, c)
  \/ \E p \in Ids, c \in Ids : RemoveChild(p, c)
  \/ \E o \in Ids : Destroy(o)

SpecHierarchy == InitDefault /\ [][NextHierarchy]_vars

\* tagged objects with colliders in a hierarchy that are enabled, disabled
\* and destroyed
SphereConfigs == [type : {"sphere"}, size : {NoSize}]

NextLifecycle ==
  \/ \E cfg \in TagConfigs : CreateObject(cfg, MaxCreate)
  \/ \E o \in Ids, cfg \in SphereConfigs : AddCollider(o, cfg)
  \/ \E p \in Ids, c \in Ids : AddChild(p, c)
  \/ \E o \in Ids : Enable(o)
  \/ \E o \in Ids : Disable(o)
  \/ \E o \in Ids : Destroy(o)

SpecLifecycle == InitDefault /\ [][NextLifecycle]_vars

\* ---------------------------------------- CanvasEngine: the update walk
RECURSIVE held(_)
\* the update handlers the objects 1..n hold together
held(n) == IF n = 0 THEN 0 ELSE Len(updateHandlers[n]) + held(n - 1)

\* GameObject.onUpdate(callback): updateHandlers.add(callback); the callback
\* is one the object already holds or the next new function, and the objects
\* hold at most MaxHandlers handlers together
CanvasOnUpdate(o, h) ==
  /\ UserTurn
  /\ o \in Made
  /\ h <= Len(updateHandlers[o]) + 1
  /\ held(MaxObjects) < MaxHandlers \/ SetHas(updateHandlers[o], h)
  /\ updateHandlers' = [updateHandlers EXCEPT ![o] = SetAdd(@, h)]
  /\ UNCHANGED <<mode, objVars, lookVars, baseTags, invoked, cbVars,
                 inputVars, loopVars, obs>>

\* no handler has run and nothing was thrown
NoRuns == [runs |-> [o \in Ids |-> [h \in Callbacks |-> 0]], thrown |-> FALSE]

\* the nested calls of update the stack holds before a RangeError is thrown:
\* more than the deepest hierarchy without a cycle needs
MaxStack == MaxObjects + 1

\* this.updateHandlers.forEach((cb) => cb(data)); a count stops at MaxRuns
ran(runs, o) ==
  [runs EXCEPT ![o] =
     [h \in Callbacks |->
        IF SetHas(updateHandlers[o], h) /\ runs[o][h] < MaxRuns
        THEN runs[o][h] + 1
        ELSE runs[o][h]]]

RECURSIVE update(_, _, _), updateEach(_, _, _, _)
\* GameObject.update(data) with room for stack nested calls: a disabled
\* object returns at once, an enabled one runs its handlers and then updates
\* its children in the order of the set; a walk that never ends throws
update(res, o, stack) ==
  IF res.thrown THEN res
  ELSE IF stack = 0 THEN [res EXCEPT !.thrown = TRUE]
  ELSE IF ~enabled[o] THEN res
  ELSE updateEach([res EXCEPT !.runs = ran(@, o)], children[o], 1, stack - 1)

\* this.children.forEach((child) => child.update(data))
updateEach(res, kids, i, stack) ==
  IF i > Len(kids) \/ res.thrown THEN res
  ELSE updateEach(update(res, kids[i], stack), kids, i + 1, stack)

\* root.update(data), called once for a frame
CanvasUpdate(root) ==
  /\ UserTurn
  /\ root \in Made
  /\ invoked' = update(NoRuns, root, MaxStack).runs
  /\ UNCHANGED <<mode, objVars, lookVars, baseTags, updateHandlers, cbVars,
                 inputVars, loopVars, obs>>

\* MaxObjects objects made by new GameObject(name, engine, "sprite"), each
\* added to the scene by its constructor
InitCanvas ==
  /\ mode = "2d"
  /\ created = MaxObjects
  /\ objects = <<>>
  /\ tagIndex = <<>>
  /\ collidables = <<>>
  /\ tags = [o \in Ids |-> {}]
  /\ collider = [o \in Ids |-> NoCollider]
  /\ children = [o \in Ids |-> <<>>]
  /\ parent = [o \in Ids |-> Null]
  /\ enabled = [o \in Ids |-> TRUE]
  /\ isDestroyed = [o \in Ids |-> FALSE]
  /\ threeObject = [o \in Ids |-> TRUE]
  /\ threeParent = [o \in Ids |-> SceneRoot]
  /\ visible = [o \in Ids |-> TRUE]
  /\ position = [o \in Ids |-> <<0, 0, 0>>]
  /\ rotation = [o \in Ids |-> <<0, 0, 0>>]
  /\ scale = [o \in Ids |-> <<1, 1, 1>>]
  /\ type = [o \in Ids |-> "sprite"]
  /\ materialMap = [o \in Ids |-> Null]
  /\ loads = {}
  /\ delivered = [o \in Ids |-> "none"]
  /\ cleanups = [o \in Ids |-> 0]
  /\ InitCanvasVars
  /\ InitEngine

\* objects with update handlers are put under each other, enabled and
\* disabled, and any of them is updated as the root of a frame
NextCanvas ==
  \/ \E o \in Ids, h \in Callbacks : CanvasOnUpdate(o, h)
  \/ \E p \in Ids, c \in Ids : AddChild(p, c)
  \/ \E o \in Ids : Enable(o)
  \/ \E o \in Ids : Disable(o)
  \/ \E root \in Ids : CanvasUpdate(root)

SpecCanvas == InitCanvas /\ [][NextCanvas]_vars

\* ------------------------------------------------- colliders of all shapes
\* an engine of either mode with one system registered by onUpdate and one
\* by onCollisionEnter
InitShapes ==
  /\ mode \in {"2d", "3d"}
  /\ InitObjects
  /\ updateCallbacks = <<1>>
  /\ collisionCallbacks = <<1>>
  /\ clickCallbacks = <<>>
  /\ keys = <<>>
  /\ mouseDown = FALSE
  /\ justPressed = FALSE
  /\ justReleased = FALSE
  /\ frame = 1
  /\ pc = "idle"
  /\ cur = 0
  /\ sweep = NoSweep
  /\ obs = [NoObs EXCEPT !.subU = {1}, !.subC = {1}]

\* objects made at the same place or half a unit apart
SpotConfigs == [type : {"sprite"}, tags : {{}}, position : {<<0, 0>>, <<1, 0>>}]

\* colliders of the four types without a size, with an array for a size and
\* with a number for a size
ShapeTypes == {"sphere", "box", "circle", "rectangle"}

ShapeConfigs == [type : ShapeTypes, size : {NoSize, ArraySize, MaxCoord}]

NextShapes ==
  \/ \E cfg \in SpotConfigs : CreateObject(cfg, MaxCreate)
  \/ \E o \in Ids, cfg \in ShapeConfigs : AddCollider(o, cfg)
  \/ Tick

SpecShapes == InitShapes /\ [][NextShapes]_vars

\* -------------------------------------------------------- circles in 2d
InitCircles ==
  /\ InitShapes
  /\ mode = "2d"

\* objects made at the points of a small grid in the plane, or above it
Places ==
  {<<x, y>> : x \in Coords, y \in {0, 1}} \cup {<<0, 0, MaxCoord>>}

PlaceConfigs == [type : {"sprite"}, tags : {{}}, position : Places]

\* circles without a size, with an array for a size and with a number for a
\* size, zero included; with no offset and with an offset
CircleSizes == {NoSize, ArraySize, 0, MaxCoord}

CircleConfigs ==
  [type : {"circle"}, size : CircleSizes]
    \cup [type : {"circle"}, size : CircleSizes, offset : {<<1, 1, 0>>}]

NextCircles ==
  \/ \E cfg \in PlaceConfigs : CreateObject(cfg, MaxCreate)
  \/ \E o \in Ids, cfg \in CircleConfigs : AddCollider(o, cfg)
  \/ Tick

SpecCircles == InitCircles /\ [][NextCircles]_vars

\* ------------------------------------------------ calls after destroy()
\* objects that are tagged, given colliders, put under each other and
\* destroyed, the destroyed ones included: the caller keeps its references
NextDestroyed ==
  \/ \E cfg \in PlainConfigs : CreateObject(cfg, MaxCreate)
  \/ \E o \in Ids, t \in Tags : AddTag(o, t)
  \/ \E o \in Ids, cfg \in SphereConfigs : AddCollider(o, cfg)
  \/ \E p \in Ids, c \in Ids : AddChild(p, c)
  \/ \E o \in Ids : Destroy(o)

SpecDestroyed == InitDefault /\ [][NextDestroyed]_vars

\* ------------------------------------------------------------ the claims
Alive(o) == o \in Made /\ ~isDestroyed[o]

InIndex(o, t) == t \in DOMAIN tagIndex /\ SetHas(tagIndex[t], o)

\* C2: for every object that is registered in the engine and not destroyed
\* and every tag, the id is in the tag's set of tagIndex exactly when the
\* object has the tag.
C2_TagIndexAgrees ==
  \A o \in Made, t \in Tags :
    (SetHas(objects, o) /\ ~isDestroyed[o]) => (InIndex(o, t) <=> hasTag(o, t))

\* a registered object carries one tag and has lost another one, whose set
\* is still a key of the index, while some other object has been destroyed
C2_Witness ==
  \E o \in Made, t, u \in Tags, d \in Made :
    /\ SetHas(objects, o) /\ ~isDestroyed[o]
    /\ hasTag(o, t) /\ InIndex(o, t)
    /\ u \in DOMAIN tagIndex /\ ~hasTag(o, u) /\ ~InIndex(o, u)
    /\ isDestroyed[d] /\ tags[d] # {}

TagLists == UNION {[1..n -> Tags] : n \in 0..MaxQuery}

Carriers(ts) ==
  {o \in Made : ~isDestroyed[o] /\ \A i \in 1..Len(ts) : hasTag(o, ts[i])}

\* C3: getByTags of one or more tags returns exactly the created, not
\* destroyed objects that carry every listed tag, each once, also when a
\* tag is listed twice; of no tag it returns the empty list; getByTag
\* returns the first element of that list, or undefined when it is empty.
C3_GetByTags ==
  \A ts \in TagLists :
    LET found == getByTags(ts)
        first == getByTag(ts)
        carriers == Carriers(ts)
    IN /\ Len(ts) = 0 => found = <<>>
       /\ Len(ts) >= 1 => NoDup(found) /\ Elems(found) = carriers
       /\ first = IF carriers = {} \/ Len(ts) = 0 THEN Null ELSE found[1]
       /\ first # Null => first \in carriers

\* a query of two different tags finds an object while both sets of the
\* index still hold the id of a destroyed object, listed before it
C3_Witness ==
  \E t, u \in Tags, o, d \in Made :
    /\ t # u
    /\ getByTags(<<t, u>>) = <<o>>
    /\ getByTags(<<u, u>>) = <<o>>
    /\ getByTag(<<t>>) = o
    /\ isDestroyed[d] /\ tagIndex[t][1] = d /\ tagIndex[u][1] = d

\* C4: getObjectById returns a created object exactly while it is not
\* destroyed, and getAllObjects lists exactly the created, not destroyed
\* objects, each once.
C4_RegistryHoldsTheLiving ==
  /\ \A o \in Ids : getObjectById(o) = (IF Alive(o) THEN o ELSE Null)
  /\ Elems(getAllObjects) = {o \in Made : ~isDestroyed[o]}
  /\ NoDup(getAllObjects)

\* an object has been destroyed and is gone from the registry while one
\* created after it is the only object listed
C4_Witness ==
  \E o, d \in Made :
    /\ d < o
    /\ isDestroyed[d] /\ getObjectById(d) = Null
    /\ Alive(o) /\ getAllObjects = <<o>>

\* C5: the three object of every non-destroyed object is a child of its
\* parent's three object, or of the scene root when it has no parent.
C5_SceneMirrorsHierarchy ==
  \A o \in Made :
    ~isDestroyed[o] =>
      /\ parent[o] # Null => threeParent[o] = parent[o]
      /\ parent[o] = Null => threeParent[o] = SceneRoot

\* a live object that removeChild took from its parent: it has no parent
\* and its three object is attached to nothing, the scene root included
C5_Detached ==
  \E o \in Made :
    /\ ~isDestroyed[o] /\ threeObject[o]
    /\ parent[o] = Null /\ threeParent[o] = Null
    /\ \A q \in Made : ~isDestroyed[q]

RECURSIVE Reach(_, _, _)
\* the objects reached from the set todo over the children sets of w
Reach(w, todo, seen) ==
  IF todo = {} THEN seen
  ELSE LET x == CHOOSE y \in todo : TRUE
           new == Elems(w.children[x]) \ (seen \cup {x})
       IN Reach(w, (todo \ {x}) \cup new, seen \cup {x})

\* o and its descendants (children, recursively)
Family(o) == Reach(World, {o}, {})

Cleaned(d) ==
  /\ isDestroyed[d]
  /\ ~threeObject[d]
  /\ ~SetHas(objects, d)
  /\ ~SetHas(collidables, d)
  /\ \A t \in Tags : ~InIndex(d, t)

\* C6: when destroy() returns on a non-destroyed object, the object and all
\* its descendants are destroyed, have no three object, are in no registry,
\* collidables or tagIndex set, and the object is no child of its former
\* parent.
C6_DestroyCleansFamily ==
  [][\A o \in Made :
       (~isDestroyed[o] /\ isDestroyed'[o]) =>
         /\ \A d \in Family(o) : Cleaned(d)'
         /\ parent[o] # Null => ~SetHas(children'[parent[o]], o)]_vars

\* the steps of one frame, each after the one before it, and the first step
\* of the next frame after the render
TickOrder ==
  {<<"render", "start">>, <<"start", "update">>, <<"update", "sweep">>,
   <<"sweep", "reset">>, <<"reset", "render">>}

\* C1: in every frame the update callbacks are all invoked, then the
\* collision sweep runs, then resetFrame, then the render, and no step of
\* the next frame starts before the render of this one.
C1_TickOrder ==
  [][/\ obs'.step # obs.step => <<obs.step, obs'.step>> \in TickOrder
     /\ (obs.step = "start" /\ obs'.step = "update") =>
          \A cb \in obs.subU : obs.calls[cb] = 1]_vars

\* C7: an update callback is invoked once in every frame for each
\* registration (a callback that is unsubscribed and registered again is a
\* new registration), a callback whose unsubscribe function has been called
\* is not invoked by a later frame, collision or click until it is
\* registered again, and the callbacks that stay registered are all invoked.
C7_CallbacksInvokedWhileRegistered ==
  [][/\ (pc = "update" /\ pc' = "updateCb") => obs'.running \in obs.subU
     /\ (pc = "collision" /\ pc' = "collisionCb") => obs'.running \in obs.subC
     /\ (pc = "click" /\ pc' = "clickCb") => obs'.running \in obs.subK
     /\ (pc = "update" /\ pc' = "sweep") =>
          \A cb \in obs.subU : obs.calls[cb] = 1
     /\ \A cb \in Callbacks : obs'.calls[cb] <= 1]_vars

\* in the second frame after the construction an update callback runs while
\* another one, invoked before, has been unsubscribed, as have a collision
\* and a click callback, with a collision and a click callback registered
C7_Witness ==
  \E a, b \in Callbacks :
    /\ a # b
    /\ frame = 3
    /\ pc = "updateCb" /\ obs.running = a
    /\ b \in obs.seen /\ b \notin obs.subU
    /\ obs.subC = {a} /\ obs.subK = {a}
    /\ obs.prevTold # {}

\* C8: a collision callback is invoked for a pair only in the frame in which
\* the pair starts to overlap, not again while it stays overlapping.
C8_EnterOnlyWhenOverlapStarts ==
  pc = "collisionCb" => <<obs.running, sweepPair>> \notin obs.prevTold

\* C9: isMouseJustPressed() is true in the update callbacks of the first
\* frame after a mousedown and false in those of every later frame until the
\* next mousedown; resetFrame clears justPressed and justReleased and leaves
\* the held state alone.
C9_JustPressedLastsOneFrame ==
  [][/\ pc' = "updateCb" => (isMouseJustPressed' <=> obs'.sinceDown = 1)
     /\ (pc = "reset" /\ pc' = "render") =>
          /\ ~justPressed' /\ ~justReleased'
          /\ mouseDown' = mouseDown /\ keys' = keys]_vars

\* C10: isKeyPressed(code) is true only in the frame in which the key was
\* pressed, and false in the following frames while the key is held.
C10_KeyPressedIsSingleTrigger ==
  \A k \in KeyCodes :
    (pc = "updateCb" /\ isKeyPressed(k)) => obs.sincePress[k] = 1

\* C11: when the load of a texture completes on an object that was destroyed
\* while the load was in flight, nothing of the object changes: no texture
\* is set, and it stays destroyed with no three object.
C11_LateLoadChangesNothing ==
  [][\A o \in Made :
       (isDestroyed[o] /\ \E t \in Textures :
                            <<o, t>> \in loads /\ <<o, t>> \notin loads') =>
         /\ materialMap'[o] = materialMap[o]
         /\ isDestroyed'[o] /\ ~threeObject'[o]
         /\ objVars' = objVars]_vars

\* the load of a sprite destroyed in the meantime has completed and left no
\* texture, while the load of another sprite, still alive, has set one
C11_Witness ==
  \E o, p \in Made :
    /\ isDestroyed[o] /\ delivered[o] = "late" /\ type[o] = "sprite"
    /\ materialMap[o] = Null /\ ~threeObject[o]
    /\ ~isDestroyed[p] /\ delivered[p] = "live" /\ materialMap[p] # Null

\* C12: in one sweep every pair of distinct colliders that were registered,
\* enabled and not destroyed when it began is tested exactly once, and every
\* registered collision callback is invoked once for each such pair that
\* collides, never for a pair that does not collide or for an object paired
\* with itself.
C12_SweepTestsEveryPairOnce ==
  [][/\ (pc \in {"sweep", "collision"} /\ pc' \in {"reset", "idle"}) =>
          \A p \in Pairs : obs'.tests[p] = (IF p \in obs.due THEN 1 ELSE 0)
     /\ \A p \in Pairs : obs'.tests[p] <= 1
     /\ (pc = "collision" /\ pc' = "collisionCb") =>
          /\ sweepPair \in obs.due
          /\ sweepPair[1] # sweepPair[2]
          /\ checkCollision(sweepPair[1], sweepPair[2])
          /\ <<obs'.running, sweepPair>> \notin obs.told
          /\ obs'.running \in obs.subC
     /\ (pc = "collision" /\ pc' = "sweep") =>
          \A cb \in obs.subC : <<cb, sweepPair>> \in obs.told]_vars

\* a sweep over three colliders was left at its second pair, after the
\* callback of the first pair destroyed an object: the third pair is untested
C12_Witness ==
  \E p \in obs.due :
    /\ pc = "idle" /\ obs.step = "update"
    /\ Cardinality(obs.due) = 3
    /\ obs.told # {}
    /\ obs.tests[p] = 0

\* the third component of an array of the config, d when it is left out
Third(v, d) == IF Len(v) = 3 THEN v[3] ELSE d

\* C13: the object that createObject returns has the position, rotation and
\* scale given in the config, a third component left out being 0 for
\* position and rotation and 1 for scale and a third component given, 0
\* included, being applied as given; every tag of the config is on the
\* object and in the tag index.
C13_CreateAppliesConfig ==
  [][\A cfg \in CreateConfigs :
       CreateObject(cfg, 1) =>
         LET o == created'
         IN /\ cfg.position # <<>> =>
                 position'[o] = <<cfg.position[1], cfg.position[2],
                                  Third(cfg.position, 0)>>
            /\ cfg.rotation # <<>> =>
                 rotation'[o] = <<cfg.rotation[1], cfg.rotation[2],
                                  Third(cfg.rotation, 0)>>
            /\ cfg.scale # <<>> =>
                 scale'[o] = <<cfg.scale[1], cfg.scale[2], Third(cfg.scale, 1)>>
            /\ \A t \in cfg.tags :
                 t \in tags'[o] /\ t \in DOMAIN tagIndex'
                                /\ SetHas(tagIndex'[t], o)]_vars

\* C14: after SceneEngine.destroy() every created object is destroyed,
\* getAllObjects() is empty and the collidables set is empty, whatever the
\* hierarchy was.
C14_EngineDestroyLeavesNothing ==
  [][EngineDestroy =>
       /\ \A o \in Made : isDestroyed'[o]
       /\ getAllObjects' = <<>>
       /\ collidables' = <<>>]_vars

\* every object is destroyed and the registry is empty, yet a destroyed
\* object is registered as a collider
C14_Witness ==
  /\ created = MaxCreate
  /\ \A o \in Made : isDestroyed[o]
  /\ getAllObjects = <<>>
  /\ collidables # <<>>

\* C15: hasTags(tags, true) is true exactly when the object carries every
\* listed tag and hasTags(tags, false) exactly when it carries at least one,
\* so the empty list gives true and false; adding a list of tags twice is
\* the same as adding it once, and so is removing it.
C15_HasTagsAllOrAny ==
  /\ hasTags(<<>>, TRUE) /\ ~hasTags(<<>>, FALSE)
  /\ \A list \in BaseLists :
       /\ hasTags(list, TRUE) <=> Elems(list) \subseteq Elems(baseTags)
       /\ hasTags(list, FALSE) <=> Elems(list) \cap Elems(baseTags) # {}
       /\ addEach(addEach(baseTags, list), list) = addEach(baseTags, list)
       /\ deleteEach(deleteEach(baseTags, list), list) = deleteEach(baseTags, list)
       /\ NoDup(addEach(baseTags, list))
       /\ Elems(addEach(baseTags, list)) = Elems(baseTags) \cup Elems(list)
       /\ Elems(deleteEach(baseTags, list)) = Elems(baseTags) \ Elems(list)

\* the object carries some tags and not others, after a removal: a list of
\* one carried and one missing tag matches any but not all
C15_Witness ==
  \E t, u, v \in BaseTags :
    /\ baseTags = <<v, t>> /\ t < v /\ u \notin {t, v}
    /\ hasTags(<<t, u>>, FALSE) /\ ~hasTags(<<t, u>>, TRUE)
    /\ hasTags(<<v, t>>, TRUE)

\* C16: destroy() on an object that is already destroyed changes nothing:
\* the registry, the tag index, the collidables and the hierarchy stay as
\* they are, and the cleanup of an object never runs a second time.
C16_DestroyIsIdempotent ==
  \A o \in Made :
    /\ isDestroyed[o] => destroy(World, o) = World
    /\ ~isDestroyed[o] => destroy(destroy(World, o), o) = destroy(World, o)
    /\ cleanups[o] <= 1
    /\ cleanups[o] = 1 <=> isDestroyed[o]

\* a destroyed object that has been tagged again and given a live child, so
\* that a second run of destroy's body would find work to do
C16_Witness ==
  \E o, c \in Made, t \in Tags :
    /\ isDestroyed[o] /\ cleanups[o] = 1
    /\ InIndex(o, t)
    /\ ~isDestroyed[c] /\ SetHas(children[o], c)
    /\ destroy(World, o) = World

\* C17: c.parent is p exactly when c is in p.children, so an object is in
\* the children set of at most one object; addChild on a new parent takes
\* the child out of the children of its previous parent, and removeChild on
\* an object that is not the parent of the child changes nothing.
C17_ParentAndChildrenAgree ==
  /\ \A p, c \in Ids : parent[c] = p <=> SetHas(children[p], c)
  /\ \A c \in Ids : Cardinality({p \in Ids : SetHas(children[p], c)}) <= 1
  /\ \A p, c \in Made :
       LET after == addChild(World, p, c)
       IN /\ after.parent[c] = p
          /\ \A q \in Ids : SetHas(after.children[q], c) <=> q = p
  /\ \A p, c \in Made : parent[c] # p => removeChild(World, p, c) = World

\* a chain of three live objects, made by two addChild calls
C17_Witness ==
  \E p, q, c \in Made :
    /\ p # q /\ p # c /\ q # c
    /\ children[p] = <<q>> /\ parent[q] = p
    /\ children[q] = <<c>> /\ parent[c] = q
    /\ children[c] = <<>> /\ parent[p] = Null
    /\ \A o \in {p, q, c} : ~isDestroyed[o]

RECURSIVE Ancestors(_, _)
\* the parent of o, its parent and so on, over at most n steps
Ancestors(o, n) ==
  IF n = 0 \/ parent[o] = Null THEN {}
  ELSE {parent[o]} \cup Ancestors(parent[o], n - 1)

\* C18: the hierarchy is a forest: no object is its own parent or its own
\* ancestor.
C18_HierarchyIsForest ==
  \A o \in Made : o \notin Ancestors(o, MaxObjects)

\* two live objects that are each the parent of the other, hanging under
\* nothing else
C18_Witness ==
  \E a, b \in Made :
    /\ a # b
    /\ ~isDestroyed[a] /\ ~isDestroyed[b]
    /\ parent[a] = b /\ parent[b] = a
    /\ children[a] = <<b>> /\ children[b] = <<a>>

\* C19: for every object that is not destroyed the enabled flag equals the
\* visible flag of its three object: both are true for a new object, false
\* after disable() and true after enable(), and neither call changes the
\* tags, the collider or the hierarchy.
C19_EnabledIsVisible ==
  /\ [](\A o \in Made : ~isDestroyed[o] => enabled[o] = visible[o])
  /\ [][\A o \in Made :
          /\ created' = o /\ created # o => enabled'[o] /\ visible'[o]
          /\ (~isDestroyed[o] /\ Enable(o)) => enabled'[o] /\ visible'[o]
          /\ (~isDestroyed[o] /\ Disable(o)) => ~enabled'[o] /\ ~visible'[o]
          /\ (Enable(o) \/ Disable(o)) =>
               UNCHANGED <<tags, tagIndex, collider, collidables, children,
                           parent, threeParent, isDestroyed>>]_vars

\* a disabled, hidden object with a tag, a collider and a child that is still
\* enabled and visible
C19_Witness ==
  \E o, c \in Made :
    /\ ~isDestroyed[o] /\ ~enabled[o] /\ ~visible[o]
    /\ tags[o] # {} /\ collider[o] # NoCollider /\ children[o] = <<c>>
    /\ ~isDestroyed[c] /\ enabled[c] /\ visible[c]

RECURSIVE EnabledUpTo(_, _, _)
\* o and its parent, its parent and so on up to root are all enabled, over at
\* most n steps up
EnabledUpTo(o, root, n) ==
  /\ enabled[o]
  /\ \/ o = root
     \/ /\ n > 0
        /\ parent[o] # Null
        /\ EnabledUpTo(parent[o], root, n - 1)

\* C20: update(data) on a disabled object runs no handler of the object or of
\* its descendants; on an enabled object it runs each of its own handlers
\* exactly once and then updates each child, so a handler of an object runs
\* in a frame, and then exactly once, if and only if the object and all of its
\* ancestors up to the updated root are enabled.
C20_HandlersRunOnceUnderEnabled ==
  \A root \in Made :
    LET walk == update(NoRuns, root, MaxStack)
    IN /\ ~walk.thrown
       /\ \A o \in Ids, h \in Callbacks :
            walk.runs[o][h] =
              IF SetHas(updateHandlers[o], h) /\ EnabledUpTo(o, root, MaxObjects)
              THEN 1 ELSE 0

\* an enabled object with a handler that is its own child, so that its
\* update never returns
C20_Witness ==
  \E o \in Made, h \in Callbacks :
    /\ enabled[o] /\ parent[o] = o /\ SetHas(children[o], o)
    /\ SetHas(updateHandlers[o], h)
    /\ invoked[o][h] = MaxRuns

\* the two colliders are circles in a 2d engine or spheres in a 3d engine
Matched(a, b) ==
  \/ mode = "2d" /\ collider[a].type = "circle" /\ collider[b].type = "circle"
  \/ mode = "3d" /\ collider[a].type = "sphere" /\ collider[b].type = "sphere"

\* C21: checkCollision reports a collision only for two circles in 2d mode
\* or two spheres in 3d mode; for every other combination of collider types
\* the check is false and the sweep starts no collision event, whatever the
\* positions and the sizes are.
C21_OnlyCirclesAndSpheresCollide ==
  /\ [](\A a, b \in Made :
          threeObject[a] /\ threeObject[b] /\ checkCollision(a, b)
            => Matched(a, b))
  /\ [][pc = "sweep" /\ pc' = "collision"
          => Matched(sweep.objects[sweep.i], sweep.objects[sweep.j])]_vars

\* the sweep of a 2d engine has tested two spheres with radius 1 at the same
\* place and told the system nothing
C21_Witness ==
  /\ mode = "2d"
  /\ obs.step = "sweep"
  /\ obs.told = {}
  /\ \E a, b \in Made :
       /\ a < b
       /\ obs.tests[<<a, b>>] = 1
       /\ position[a] = position[b]
       /\ collider[a].type = "sphere" /\ collider[b].type = "sphere"
       /\ collider[a].radius = MaxCoord /\ collider[b].radius = MaxCoord

\* the centre of the collider of o in the plane: position plus offset
Centre(o) ==
  <<position[o][1] + collider[o].offset[1],
    position[o][2] + collider[o].offset[2]>>

\* the squared distance of the two centres
DistSq(a, b) ==
  (Centre(a)[1] - Centre(b)[1]) * (Centre(a)[1] - Centre(b)[1])
    + (Centre(a)[2] - Centre(b)[2]) * (Centre(a)[2] - Centre(b)[2])

\* the square of the sum of the two radii
ReachSq(a, b) ==
  (collider[a].radius + collider[b].radius)
    * (collider[a].radius + collider[b].radius)

\* C22: in 2d mode two circles collide if and only if the squared distance of
\* their centres (position plus offset, x and y only) is strictly less than
\* the square of the sum of their radii; a circle made without a number for a
\* size has the radius 0.5; the result is the same with the two objects
\* swapped, and circles that exactly touch do not collide.
C22_CirclesCollideWithinRadii ==
  /\ [](mode = "2d" =>
          \A a, b \in Made :
            /\ threeObject[a] /\ threeObject[b]
            /\ collider[a].type = "circle" /\ collider[b].type = "circle"
            => /\ checkCollision(a, b) <=> DistSq(a, b) < ReachSq(a, b)
               /\ checkCollision(a, b) <=> checkCollision(b, a)
               /\ DistSq(a, b) = ReachSq(a, b) => ~checkCollision(a, b))
  /\ [][\A o \in Made, cfg \in CircleConfigs :
          AddCollider(o, cfg) =>
            collider'[o].radius =
              IF cfg.size \in {NoSize, ArraySize} THEN DefaultRadius
              ELSE cfg.size]_vars
  /\ [][pc = "sweep" /\ ~SweepOver /\ sweepPair \notin sweep.checked
          => (pc' = "collision"
                <=> DistSq(sweepPair[1], sweepPair[2])
                      < ReachSq(sweepPair[1], sweepPair[2]))]_vars

\* the sweep has tested two circles of the default radius whose centres are
\* one unit apart, so that they exactly touch, and told the system nothing
C22_Witness ==
  /\ mode = "2d"
  /\ obs.step = "sweep"
  /\ obs.told = {}
  /\ \E a, b \in Made :
       /\ a < b
       /\ obs.tests[<<a, b>>] = 1
       /\ collider[a].type = "circle" /\ collider[b].type = "circle"
       /\ collider[a].radius = DefaultRadius
       /\ collider[b].radius = DefaultRadius
       /\ DistSq(a, b) = Scale * Scale
       /\ ReachSq(a, b) = Scale * Scale

\* C23: after any sequence of operations, addTag, addCollider and addChild on
\* a destroyed object included, no destroyed object is in the objects
\* registry or in the collidables set, and no destroyed object's id is in a
\* tagIndex set.
C23_NoDestroyedRegistered ==
  \A d \in Made :
    isDestroyed[d] =>
      /\ ~SetHas(objects, d)
      /\ ~SetHas(collidables, d)
      /\ \A t \in Tags : ~InIndex(d, t)

\* a destroyed object that has left the registry is listed under a tag and
\* registered as a collider
C23_Witness ==
  \E d \in Made, t \in Tags :
    /\ isDestroyed[d] /\ ~threeObject[d]
    /\ ~SetHas(objects, d)
    /\ InIndex(d, t) /\ t \in tags[d]
    /\ SetHas(collidables, d) /\ collider[d] # NoCollider

\* C24: every running tick completes: when an update callback or a collision
\* callback destroys an object that has a collider, the sweep still finishes
\* without an error, and the tick goes on to reset the one-shot input flags
\* and to render; a tick is left only by its render.
C24_TickCompletes ==
  [][(pc # "idle" /\ pc' = "idle") =>
       /\ pc = "render"
       /\ obs.step = "reset" /\ obs'.step = "render"]_vars

\* a tick is over with nothing reset and nothing rendered: the callback of a
\* colliding pair destroyed an object, and the test of a later pair of the
\* snapshot with that object raised the error
C24_Witness ==
  /\ pc = "idle"
  /\ obs.step = "update"
  /\ obs.told # {}
  /\ \E p \in obs.due :
       /\ obs.tests[p] = 1
       /\ isDestroyed[p[1]] \/ isDestroyed[p[2]]
       /\ \A cb \in obs.subC : <<cb, p>> \notin obs.told

====
